---- MODULE Spec2Model ----
(***************************************************************************)
(* gpfs: the sync daemon (lib/daemon.ts), its start command                *)
(* (commands/daemon/start.tsx) and the pull/push executors it drives.      *)
(*                                                                         *)
(* Spec       one daemon process after DaemonRunner.start(): the watcher   *)
(*            loop, the per-file debounce timers, the poll interval timer, *)
(*            pushFile and pullAllProjects split at their awaits, the      *)
(*            user, the remote service and stop().                         *)
(* SpecStart  several `gpfs daemon start --foreground` processes racing on *)
(*            the lock record daemon.pid.                                  *)
(***************************************************************************)
EXTENDS Integers, Sequences, FiniteSets, TLC

\* ------------------------------------------------------------------ bounds
\* Concurrent timer/interval callbacks the model follows at once.
MaxActive == 2
\* The debounce delay (configuration), in clock ticks.
Debounce == 2
\* Budgets of the environment: user saves, remote edits, failing remote calls.
MaxSaves == 2
MaxBurst == 3
MaxRemoteEdits == 1
MaxFailures == 1
MaxPolls == 2
\* Saturation of the error counters.
ErrCap == 1
\* Saturation of the per-burst counters of change events and of pushes.
BurstCap == 3
\* Start commands issued against one root (process ids 1..NProc).
NProc == 3
\* One-shot pull and push commands run in a row.
MaxCmds == 3

\* ------------------------------------------------------------ the universe
Item == {"PVTI_1", "PVTI_2"}
ItemOrder == <<"PVTI_1", "PVTI_2">>
\* The ids a local file may carry: those of remote items, and an id the user
\* gave a file of their own that does not start with PVTI_.
LocalId == Item \cup {"draft-1"}
\* The content of a file whose metadata block is opened but never closed.
OpenBlock == "---\ntitle: t1\nb0"
File == {"123.md", "123-2.md", "t0.md", "t0-2.md", "t0-3.md", "t1.md", "t1-2.md"}
FileOrder == <<"123.md", "123-2.md", "t0.md", "t0-2.md", "t0-3.md", "t1.md", "t1-2.md">>
Title == {"t0", "t1"}
Body == {"b0", "b1", "b2"}
\* Titles and bodies of the one-shot commands: a title that reads as a number,
\* a body with trailing whitespace, a body whose checksum is all digits.
SyncTitle == {"t0", "123"}
SyncBody == {"b0", "b0 ", "b736"}
ProjectId == "PVT_1"
Slot == 1..MaxActive
Proc == 1..NProc
DaemonPid == 1

VARIABLES
    files,           \* the project directory: file name -> item file
    remote,          \* the remote project: item id -> remote item
    events,          \* fs.watch events not yet taken by the watcher loop
    watching,        \* the event whose `await logDaemon` is pending, or "none"
    watcherAlive,    \* the for-await loop has not hit `break`
    running,         \* DaemonRunner.running
    pendingChanges,  \* DaemonRunner.pendingChanges: file -> has an entry
    timeouts,        \* live setTimeout handles per file: remaining ticks
    pollTimer,       \* DaemonRunner.pollTimer is set
    act,             \* the timer callbacks in flight: slot -> activation
    stopPc,          \* position of stop()
    exited,          \* process.exit(0) was called
    pidFile,         \* the lock record daemon.pid: 0 (absent) or a pid
    alive,           \* the processes that exist
    startPc,         \* position of each start command
    active,          \* the processes whose DaemonRunner is running
    reclaimed,       \* the start commands that found a stale record
    stopCmd,         \* position of the stop command and the pid it signalled
    errs,            \* history: daemon actions that failed
    errLog,          \* error lines appended to daemon.log
    left,            \* what the environment may still do (the model's budgets)
    lastSaved,       \* history: body of the user's last save per file
    sentSaved,       \* history: that body has since been sent to the remote
    sinceSched,      \* history: ticks since the last scheduleFilePush(f)
    burst,           \* history: scheduleFilePush(f) calls of the current burst
    fired,           \* history: pushes started for the current burst
    firedAt,         \* history: sinceSched[f] when the burst's push started
    report,          \* what the last one-shot pull or push command returned
    lastOp,          \* the last one-shot command, "none" after any change
    run              \* a command's or a poll's pass over the tracked projects

vars == <<left, files, remote, events, watching, watcherAlive, running, pendingChanges,
          timeouts, pollTimer, act, stopPc, exited, pidFile, alive,
          startPc, active, reclaimed, stopCmd, errs, errLog, lastSaved, sentSaved, sinceSched, burst, fired, firedAt,
          report, lastOp, run>>

daemonVars == <<left, files, remote, events, watching, watcherAlive, running,
                pendingChanges, timeouts, pollTimer, act, stopPc, exited,
                errs, errLog, lastSaved, sentSaved,
                sinceSched, burst, fired, firedAt, report, lastOp, run>>

startVars == <<alive, startPc, active, reclaimed, stopCmd>>

syncVars == <<report, lastOp>>

runVars == <<run>>

\* ------------------------------------------------------------------ helpers
Min(a, b) == IF a < b THEN a ELSE b

\* An item file as written: `meta` says it has a metadata block, `title`,
\* `body` and `sum` are the texts written, `inl` says `_sync` is inline JSON.
NoFile == [present |-> FALSE, meta |-> FALSE, id |-> "", project |-> "",
           title |-> "", body |-> "", sum |-> "",
           inl |-> FALSE, deleted |-> FALSE, ctype |-> ""]

Absent == [present |-> FALSE, title |-> "", body |-> "", ctype |-> ""]

Idle == [kind |-> "idle"]

\* sha256(content), hex, first 12 characters, for the bodies used.
computeChecksum(content) ==
    CASE content = "b0" -> "c02c0b965e02"
      [] content = "b1" -> "7dc96f776c84"
      [] content = "b2" -> "4814d92093ac"
      [] content = "b0 " -> "fe953f44c4f2"
      [] content = "b736" -> "598911836866"
      [] content = OpenBlock -> "54d74f3b5bcd"

\* String.prototype.trim on the texts used.
Trim(s) == IF s = "b0 " THEN "b0" ELSE s

\* parseYamlValue on the texts used: a text of digits only reads as a number,
\* "true" as a boolean, anything else as the string itself.
DigitTexts == {"123", "598911836866"}
parseYamlValue(v) ==
    IF v \in DigitTexts THEN "<number " \o v \o ">"
    ELSE IF v = "true" THEN "<boolean true>"
    ELSE v

\* String(v) of a parsed value, as spawn's argument list receives it.
ToText(v) ==
    IF v = "<number 123>" THEN "123"
    ELSE IF v = "" THEN "undefined"
    ELSE v

\* The item file serializeItemToMarkdown(item, context) writes: the `_sync`
\* block is a nested mapping holding computeChecksum(item.body).
serializeItemToMarkdown(id, item) ==
    [present |-> TRUE, meta |-> TRUE, id |-> id, project |-> ProjectId,
     title |-> item.title, body |-> item.body,
     sum |-> computeChecksum(item.body), inl |-> FALSE, deleted |-> FALSE,
     ctype |-> item.ctype]

\* What `(fm._sync as Record)?.local_checksum` reads: a `_sync` written inline
\* as JSON (`_sync: {"local_checksum":...}`) parses to a string, whose
\* local_checksum property is undefined (""). A nested `_sync` yields the
\* parsed value of the checksum text.
storedChecksum(f) == IF f.inl THEN "" ELSE parseYamlValue(f.sum)

\* parseMarkdownString on an item file: the values the metadata block parses
\* to and the body, trimmed when the file has a metadata block.
parseMarkdownString(fr) ==
    [id |-> fr.id, title |-> parseYamlValue(fr.title),
     body |-> IF fr.meta THEN Trim(fr.body) ELSE fr.body,
     sum |-> storedChecksum(fr), deleted |-> fr.deleted, ctype |-> fr.ctype,
     project |-> fr.project]

\* No stop command was run.
NoStopCmd == [pc |-> "idle", pid |-> 0]

\* No pass over the tracked projects is under way.
NoRun == [kind |-> "none", req |-> <<>>, todo |-> <<>>, tried |-> <<>>,
          errors |-> {}, bad |-> {}, done |-> FALSE]

NoReport == [kind |-> "none", created |-> 0, updated |-> 0, deleted |-> 0,
             unchanged |-> 0, err |-> FALSE, called |-> {}, failed |-> {}]

\* Remove the k-th element of a sequence.
RemoveAt(s, k) == [i \in 1..(Len(s) - 1) |-> IF i < k THEN s[i] ELSE s[i + 1]]

\* The slots a new callback may take: none once left.cap callbacks are in flight.
FreeSlots ==
    IF Cardinality({a \in Slot : act[a] # Idle}) < left.cap
    THEN {a \in Slot : act[a] = Idle} ELSE {}
FirstFree == CHOOSE a \in FreeSlots : \A b \in FreeSlots : a <= b

\* fs.watch reports every write, create and unlink in the watched directory.
Emit(f) == IF watcherAlive THEN events \cup {f} ELSE events

AddErr(n) == Min(n + 1, ErrCap)
\* ------------------------------------------------------------ environment
\* The user saves a new body into an item file with an editor.
UserSave(f, b) ==
    /\ ~exited /\ left.saves > 0
    /\ files[f].present /\ files[f].body # b
    /\ files' = [files EXCEPT ![f].body = b]
    /\ events' = Emit(f)
    /\ lastSaved' = [lastSaved EXCEPT ![f] = b]
    /\ sentSaved' = [sentSaved EXCEPT ![f] = FALSE]
    /\ left' = [left EXCEPT !.saves = @ - 1]
    /\ UNCHANGED <<remote, watching, watcherAlive, running, pendingChanges, timeouts,
                   pollTimer, act, stopPc, exited, pidFile, errs, errLog,
                   sinceSched, burst, fired, firedAt>>
    /\ UNCHANGED <<startVars, syncVars, runVars>>

\* The user marks an item file for deletion (`deleted: true`).
UserTombstone(f) ==
    /\ ~exited /\ left.tombs > 0
    /\ files[f].present /\ ~files[f].deleted
    /\ files' = [files EXCEPT ![f].deleted = TRUE]
    /\ events' = Emit(f)
    /\ lastSaved' = [lastSaved EXCEPT ![f] = "none"]
    /\ left' = [left EXCEPT !.tombs = @ - 1]
    /\ UNCHANGED <<remote, watching, watcherAlive, running, pendingChanges, timeouts,
                   pollTimer, act, stopPc, exited, pidFile, errs, errLog,
                   sentSaved, sinceSched, burst, fired, firedAt>>
    /\ UNCHANGED <<startVars, syncVars, runVars>>

\* Somebody changes the title or the body of an item on the remote service.
RemoteEdit(i, t, b) ==
    /\ ~exited /\ left.edits > 0
    /\ remote[i].present
    /\ remote[i].title # t \/ remote[i].body # b
    /\ remote' = [remote EXCEPT ![i].title = t, ![i].body = b]
    /\ left' = [left EXCEPT !.edits = @ - 1]
    /\ UNCHANGED <<files, events, watching, watcherAlive, running, pendingChanges,
                   timeouts, pollTimer, act, stopPc, exited, pidFile, errs,
                   errLog, lastSaved, sentSaved, sinceSched, burst,
                   fired, firedAt>>
    /\ UNCHANGED <<startVars, syncVars, runVars>>

\* Somebody deletes an item on the remote service.
RemoteDelete(i) ==
    /\ ~exited /\ left.edits > 0
    /\ remote[i].present
    /\ remote' = [remote EXCEPT ![i] = Absent]
    /\ left' = [left EXCEPT !.edits = @ - 1]
    /\ UNCHANGED <<files, events, watching, watcherAlive, running, pendingChanges,
                   timeouts, pollTimer, act, stopPc, exited, pidFile, errs,
                   errLog, lastSaved, sentSaved, sinceSched, burst,
                   fired, firedAt>>
    /\ UNCHANGED <<startVars, syncVars, runVars>>

\* One clock tick. A timer that is due fires before the clock moves on.
Tick ==
    /\ ~exited
    /\ \A f \in File : \A k \in 1..Len(timeouts[f]) : timeouts[f][k] > 0
    /\ timeouts' = [f \in File |-> [k \in 1..Len(timeouts[f]) |-> timeouts[f][k] - 1]]
    /\ sinceSched' = [f \in File |-> IF timeouts[f] # <<>>
                                      THEN Min(sinceSched[f] + 1, Debounce)
                                      ELSE sinceSched[f]]
    /\ UNCHANGED <<files, remote, events, watching, watcherAlive, running,
                   pendingChanges, pollTimer, act, stopPc, exited, pidFile, errs,
                   errLog, lastSaved, sentSaved, burst,
                   fired, firedAt>>
    /\ UNCHANGED <<left, startVars, syncVars, runVars>>

\* ------------------------------------------------- watcher and debounce
\* scheduleFilePush without the clearTimeout of the existing handle.
scheduleFilePushNoClear(f) ==
    /\ timeouts' = [timeouts EXCEPT ![f] = Append(@, Debounce)]
    /\ pendingChanges' = [pendingChanges EXCEPT ![f] = TRUE]

\* scheduleFilePush with one debounce timer shared by all files: scheduling a
\* push for f cancels the pending timer of every other file.
scheduleFilePushShared(f) ==
    /\ timeouts' = [g \in File |-> IF g = f THEN <<Debounce>> ELSE <<>>]
    /\ pendingChanges' = [g \in File |-> g = f]

\* DaemonRunner.scheduleFilePush: clear the file's pending timeout, set a new
\* one for the debounce delay and record it in pendingChanges.
scheduleFilePush(f) ==
    /\ timeouts' = [timeouts EXCEPT ![f] =
            Append(IF pendingChanges[f] /\ Len(@) > 0
                   THEN RemoveAt(@, Len(@)) ELSE @, Debounce)]
    /\ pendingChanges' = [pendingChanges EXCEPT ![f] = TRUE]

\* watchDirectory, from the arrival of an event to `await logDaemon`: the loop
\* breaks when running is false.
WatchTake(f) ==
    /\ ~exited /\ watcherAlive /\ watching = "none"
    /\ f \in events
    /\ IF running
       THEN /\ watching' = f
            /\ events' = events \ {f}
            /\ UNCHANGED watcherAlive
       ELSE /\ watcherAlive' = FALSE
            /\ events' = {}
            /\ UNCHANGED watching
    /\ UNCHANGED <<files, remote, running, pendingChanges, timeouts, pollTimer,
                   act, stopPc, exited, pidFile, errs, errLog, lastSaved, sentSaved, sinceSched, burst, fired,
                   firedAt>>
    /\ UNCHANGED <<left, startVars, syncVars, runVars>>

\* watchDirectory, after `await logDaemon`: scheduleFilePush(filePath).
WatchSchedule ==
    /\ ~exited /\ watching # "none"
    /\ scheduleFilePush(watching)
    /\ watching' = "none"
    /\ LET f == watching
           fresh == timeouts[f] = <<>>
       IN /\ sinceSched' = [sinceSched EXCEPT ![f] = 0]
          /\ burst' = [burst EXCEPT ![f] = IF fresh THEN 1 ELSE Min(@ + 1, BurstCap)]
          /\ fired' = [fired EXCEPT ![f] = IF fresh THEN 0 ELSE @]
          /\ firedAt' = [firedAt EXCEPT ![f] = IF fresh THEN -1 ELSE @]
    /\ UNCHANGED <<files, remote, events, watcherAlive, running, pollTimer, act, stopPc, exited, pidFile, errs, errLog, lastSaved, sentSaved>>
    /\ UNCHANGED <<left, startVars, syncVars, runVars>>
\* ------------------------------------------------------------------ pushFile
\* The file pushFile writes back after a successful update: the parsed
\* frontmatter with `_sync.local_checksum` refreshed, every object value
\* (so `_sync` itself) written inline as JSON, then the body it had read.
pushRewrite(snap) ==
    [snap EXCEPT !.sum = computeChecksum(snap.body), !.inl = TRUE]

\* An action of the daemon failed: the callback appends an error line to
\* daemon.log ("Push failed", "Push error", or the project's message in
\* "Poll complete") and returns.
LogErrorDropped ==
    /\ errs' = AddErr(errs)
    /\ UNCHANGED errLog

LogError ==
    /\ errs' = AddErr(errs)
    /\ errLog' = AddErr(errLog)

\* The debounce timeout of f expires: the callback deletes the file's entry of
\* pendingChanges and calls pushFile, which parses the file and returns early
\* or goes on to its remote call.
TimerFire(f, k) ==
    /\ ~exited /\ FreeSlots # {}
    /\ k \in 1..Len(timeouts[f]) /\ timeouts[f][k] = 0
    /\ timeouts' = [timeouts EXCEPT ![f] = RemoveAt(@, k)]
    /\ pendingChanges' = [pendingChanges EXCEPT ![f] = FALSE]
    /\ fired' = [fired EXCEPT ![f] = Min(@ + 1, BurstCap)]
    /\ firedAt' = [firedAt EXCEPT ![f] = sinceSched[f]]
    /\ LET fm == files[f]
           go(pc) == act' = [act EXCEPT ![FirstFree] =
                                [kind |-> "push", pc |-> pc, file |-> f, snap |-> fm]]
       IN  IF ~fm.present \/ fm.id = ""
           THEN \* "Could not parse file" / "File missing required metadata"
                LogError /\ UNCHANGED act
           ELSE IF fm.deleted
           THEN go("delete") /\ UNCHANGED <<errs, errLog>>
           ELSE IF fm.ctype = "DraftIssue"
                   /\ ~(storedChecksum(fm) # "" /\ computeChecksum(fm.body) = storedChecksum(fm))
           THEN go("update") /\ UNCHANGED <<errs, errLog>>
           ELSE \* "No changes to push"
                UNCHANGED <<act, errs, errLog>>
    /\ UNCHANGED <<files, remote, events, watching, watcherAlive, running, pollTimer,
                   stopPc, exited, pidFile, lastSaved, sentSaved, sinceSched, burst>>
    /\ UNCHANGED <<left, startVars, syncVars, runVars>>

\* ghUpdateDraftIssue returns. On success the remote item holds the title and
\* body pushFile read; pushFile then refreshes `_sync`, which throws when
\* `_sync` had parsed to a string, and otherwise starts writing the file.
PushUpdate(a) ==
    /\ ~exited /\ act[a].kind = "push" /\ act[a].pc = "update"
    /\ LET snap == act[a].snap
           i == snap.id
       IN \/ /\ remote[i].present
             /\ remote' = [remote EXCEPT ![i].title = snap.title, ![i].body = snap.body]
             /\ sentSaved' = [sentSaved EXCEPT ![act[a].file] = @ \/ snap.body = lastSaved[act[a].file]]
             /\ IF snap.inl
                THEN act' = [act EXCEPT ![a] = Idle] /\ LogError
                ELSE act' = [act EXCEPT ![a].pc = "write"] /\ UNCHANGED <<errs, errLog>>
             /\ UNCHANGED left
          \/ /\ left.fails > 0 \/ ~remote[i].present
             /\ left' = IF remote[i].present THEN [left EXCEPT !.fails = @ - 1] ELSE left
             /\ act' = [act EXCEPT ![a] = Idle]
             /\ LogError
             /\ UNCHANGED <<remote, sentSaved>>
    /\ UNCHANGED <<files, events, watching, watcherAlive, running, pendingChanges,
                   timeouts, pollTimer, stopPc, exited, pidFile, lastSaved, sinceSched, burst, fired, firedAt>>
    /\ UNCHANGED <<startVars, syncVars, runVars>>

\* pushFile's writeFile lands: the file holds what pushFile had read, with the
\* refreshed checksum.
PushWrite(a) ==
    /\ ~exited /\ act[a].kind = "push" /\ act[a].pc = "write"
    /\ files' = [files EXCEPT ![act[a].file] = pushRewrite(act[a].snap)]
    /\ events' = Emit(act[a].file)
    /\ act' = [act EXCEPT ![a] = Idle]
    /\ UNCHANGED <<remote, watching, watcherAlive, running, pendingChanges, timeouts,
                   pollTimer, stopPc, exited, pidFile, errs, errLog, lastSaved, sentSaved, sinceSched, burst, fired,
                   firedAt>>
    /\ UNCHANGED <<left, startVars, syncVars, runVars>>

\* ghDeleteItem returns for a file marked deleted.
PushDelete(a) ==
    /\ ~exited /\ act[a].kind = "push" /\ act[a].pc = "delete"
    /\ LET i == act[a].snap.id
       IN \/ /\ remote[i].present
             /\ remote' = [remote EXCEPT ![i] = Absent]
             /\ act' = [act EXCEPT ![a].pc = "unlink"]
             /\ UNCHANGED <<left, errs, errLog>>
          \/ /\ left.fails > 0 \/ ~remote[i].present
             /\ left' = IF remote[i].present THEN [left EXCEPT !.fails = @ - 1] ELSE left
             /\ act' = [act EXCEPT ![a] = Idle]
             /\ LogError
             /\ UNCHANGED remote
    /\ UNCHANGED <<files, events, watching, watcherAlive, running, pendingChanges,
                   timeouts, pollTimer, stopPc, exited, pidFile, lastSaved, sentSaved, sinceSched, burst, fired, firedAt>>
    /\ UNCHANGED <<startVars, syncVars, runVars>>

\* pushFile's unlink lands (it throws when the file is already gone).
PushUnlink(a) ==
    /\ ~exited /\ act[a].kind = "push" /\ act[a].pc = "unlink"
    /\ LET f == act[a].file
       IN IF files[f].present
          THEN /\ files' = [files EXCEPT ![f] = NoFile]
               /\ events' = Emit(f)
               /\ UNCHANGED <<errs, errLog>>
          ELSE /\ LogError
               /\ UNCHANGED <<files, events>>
    /\ act' = [act EXCEPT ![a] = Idle]
    /\ UNCHANGED <<remote, watching, watcherAlive, running, pendingChanges, timeouts,
                   pollTimer, stopPc, exited, pidFile, lastSaved, sentSaved, sinceSched, burst, fired, firedAt>>
    /\ UNCHANGED <<left, startVars, syncVars, runVars>>
\* ------------------------------------------------------------ pullAllProjects
\* sanitizeForFilesystem on the titles used: the title in lower case (none of
\* them has a character that is replaced or trimmed).
sanitizeForFilesystem(str) == IF str = "T0" THEN "t0" ELSE str

\* `while (existing.has(`${base}-${counter}.md`)) counter++`.
RECURSIVE Numbered(_, _, _)
Numbered(base, existing, counter) ==
    LET filename == base \o "-" \o ToString(counter) \o ".md"
    IN IF filename \in existing THEN Numbered(base, existing, counter + 1)
       ELSE filename

\* A naming that never looks at the names in use.
getUniqueFilenameBlind(base, existing) == base \o ".md"

\* getUniqueFilename: `base.md` when it is free, the first free numbered name
\* otherwise.
getUniqueFilename(base, existing) ==
    IF (base \o ".md") \notin existing THEN base \o ".md"
    ELSE Numbered(base, existing, 2)

\* sanitizeForFilesystem(title) and the collision loop of pullAllProjects:
\* `name.md`, then `name-2.md`, `name-3.md`, ... until the name is unused.
UniqueFilename(title, used) ==
    getUniqueFilename(sanitizeForFilesystem(title), used)

\* localItemMap: item id -> the file holding it (the last such file in
\* directory order), or "none".
LocalItemMap(dir, i) ==
    LET holders == {k \in 1..Len(FileOrder) :
                        dir[FileOrder[k]].present /\ dir[FileOrder[k]].id = i}
    IN IF holders = {} THEN "none"
       ELSE FileOrder[CHOOSE k \in holders : \A j \in holders : j <= k]

\* A pull that compares the bodies only.
PullDiffersBodyOnly(cur, item) ==
    \/ ~cur.present
    \/ parseMarkdownString(cur).body # item.body

\* Whether pull overwrites the local file of a remote item: "if title or body
\* changed, update": the stored checksum plays no part.
PullDiffers(cur, item) ==
    \/ ~cur.present
    \/ parseMarkdownString(cur).title # item.title
    \/ parseMarkdownString(cur).body # item.body

\* The loop over remoteItems, from item number n on. st holds the directory,
\* usedFilenames and the files written so far: an item's file is overwritten
\* when its title or body differs from the remote item's, and an item with no
\* entry in localItemMap gets a new file.
RECURSIVE PullItems(_, _, _, _)
PullItems(st, snap, map, n) ==
    IF n > Len(ItemOrder) THEN st
    ELSE LET i == ItemOrder[n]
             item == snap[i]
             f == map[i]
             fn == UniqueFilename(item.title, st.used)
             st1 == IF ~item.present THEN st
                    ELSE IF f # "none"
                    THEN IF PullDiffers(st.dir[f], item)
                         THEN [st EXCEPT !.dir[f] = serializeItemToMarkdown(i, item),
                                         !.wrote = @ \cup {f}]
                         ELSE st
                    ELSE [st EXCEPT !.dir[fn] = serializeItemToMarkdown(i, item),
                                    !.used = @ \cup {fn},
                                    !.wrote = @ \cup {fn}]
         IN PullItems(st1, snap, map, n + 1)

\* A tombstone pass over every file of the directory that holds no remote
\* item, with or without an id.
ToTombstoneAll(dir, snap, map) ==
    {f \in File : /\ dir[f].present /\ ~dir[f].deleted
                  /\ ~(dir[f].id \in Item /\ snap[dir[f].id].present)}

\* The files the loop over localItemMap ("Mark deleted items") rewrites: the
\* item is missing remotely and the file is not marked deleted yet.
ToTombstone(dir, snap, map) ==
    {f \in File : /\ dir[f].present /\ ~dir[f].deleted
                  /\ \E i \in LocalId :
                        map[i] = f /\ ~(i \in Item /\ snap[i].present)}

\* A pull that removes the file of a remotely deleted item instead of
\* marking it.
tombstoneUnlink(fr) == NoFile

\* The file pull writes for a tombstone: the parsed metadata with
\* `deleted: true`, `_sync` as inline JSON, and the parsed body.
tombstone(fr) ==
    [fr EXCEPT !.deleted = TRUE, !.inl = TRUE, !.meta = TRUE,
               !.body = parseMarkdownString(fr).body]

\* The interval timer fires (after any number of ticks: the poll interval is
\* not tied to the clock): the callback returns when running is false and
\* otherwise calls pullAllProjects.
PollFire ==
    /\ ~exited /\ pollTimer
    /\ left.polls > 0
    /\ running => FreeSlots # {}
    /\ left' = [left EXCEPT !.polls = @ - 1]
    /\ act' = IF running
              THEN [act EXCEPT ![FirstFree] =
                      [kind |-> "pull", pc |-> "list", snap |-> [i \in Item |-> Absent],
                       map |-> [i \in LocalId |-> "none"]]]
              ELSE act
    /\ UNCHANGED <<files, remote, events, watching, watcherAlive, running,
                   pendingChanges, timeouts, pollTimer, stopPc, exited, pidFile, errs,
                   errLog, lastSaved, sentSaved,
                   sinceSched, burst, fired, firedAt>>
    /\ UNCHANGED <<startVars, syncVars, runVars>>

\* ghProjectView and ghProjectItemList return: the items as they are now, or
\* a failure, which ends the project's pull with its message in the result
\* that the callback logs.
PullList(a) ==
    /\ ~exited /\ act[a].kind = "pull" /\ act[a].pc = "list"
    /\ \/ /\ act' = [act EXCEPT ![a].snap = remote, ![a].pc = "items"]
          /\ UNCHANGED <<left, errs, errLog>>
       \/ /\ left.fails > 0
          /\ left' = [left EXCEPT !.fails = @ - 1]
          /\ act' = [act EXCEPT ![a] = Idle]
          /\ LogError
    /\ UNCHANGED <<files, remote, events, watching, watcherAlive, running,
                   pendingChanges, timeouts, pollTimer, stopPc, exited,
                   pidFile, lastSaved, sentSaved, sinceSched, burst,
                   fired, firedAt>>
    /\ UNCHANGED <<startVars, syncVars, runVars>>

\* readdir, the parse of every file (localItemMap, usedFilenames) and the
\* loop over remoteItems.
PullLocal(a) ==
    /\ ~exited /\ act[a].kind = "pull" /\ act[a].pc = "items"
    /\ LET map == [i \in LocalId |-> LocalItemMap(files, i)]
           st == PullItems([dir |-> files, used |-> {f \in File : files[f].present},
                            wrote |-> {}],
                           act[a].snap, map, 1)
       IN /\ files' = st.dir
          /\ events' = IF watcherAlive THEN events \cup st.wrote ELSE events
          /\ act' = [act EXCEPT ![a].map = map, ![a].pc = "tomb"]
    /\ UNCHANGED <<remote, watching, watcherAlive, running, pendingChanges, timeouts,
                   pollTimer, stopPc, exited, pidFile, errs, errLog, lastSaved, sentSaved, sinceSched, burst, fired,
                   firedAt>>
    /\ UNCHANGED <<left, startVars, syncVars, runVars>>

\* The loop over localItemMap: each file whose item is missing remotely gets
\* `deleted: true`, every frontmatter value written with JSON.stringify (so
\* `_sync` inline). Then the callback logs "Poll complete" and returns.
PullTomb(a) ==
    /\ ~exited /\ act[a].kind = "pull" /\ act[a].pc = "tomb"
    /\ LET tomb == ToTombstone(files, act[a].snap, act[a].map)
       IN /\ files' = [f \in File |->
                         IF f \in tomb
                         THEN tombstone(files[f])
                         ELSE files[f]]
          /\ events' = IF watcherAlive THEN events \cup tomb ELSE events
    /\ act' = [act EXCEPT ![a] = Idle]
    /\ UNCHANGED <<remote, watching, watcherAlive, running, pendingChanges, timeouts,
                   pollTimer, stopPc, exited, pidFile, errs, errLog, lastSaved, sentSaved, sinceSched, burst, fired,
                   firedAt>>
    /\ UNCHANGED <<left, startVars, syncVars, runVars>>

\* ------------------------------------------------------------------ stop()
\* SIGTERM or SIGINT arrives: stop() returns when running is false, else sets
\* it to false and awaits logDaemon("Daemon stopping").
StopSignal ==
    /\ ~exited /\ running /\ stopPc = "none"
    /\ left.stops > 0
    /\ left' = [left EXCEPT !.stops = @ - 1]
    /\ running' = FALSE
    /\ stopPc' = "clear"
    /\ UNCHANGED <<files, remote, events, watching, watcherAlive, pendingChanges,
                   timeouts, pollTimer, act, exited, pidFile, errs, errLog,
                   lastSaved, sentSaved, sinceSched, burst,
                   fired, firedAt>>
    /\ UNCHANGED <<startVars, syncVars, runVars>>

\* stop() clears every timeout held in pendingChanges, empties the map, clears
\* the interval timer and calls removePidFile.
StopClear ==
    /\ ~exited /\ stopPc = "clear"
    /\ timeouts' = [f \in File |->
                      IF pendingChanges[f] /\ Len(timeouts[f]) > 0
                      THEN RemoveAt(timeouts[f], Len(timeouts[f])) ELSE timeouts[f]]
    /\ pendingChanges' = [f \in File |-> FALSE]
    /\ pollTimer' = FALSE
    /\ stopPc' = "unlink"
    /\ burst' = [f \in File |-> IF pendingChanges[f] THEN 0 ELSE burst[f]]
    /\ UNCHANGED <<files, remote, events, watching, watcherAlive, running, act, exited,
                   pidFile, errs, errLog, lastSaved, sentSaved, sinceSched, fired,
                   firedAt>>
    /\ UNCHANGED <<left, startVars, syncVars, runVars>>

\* removePidFile: unlink daemon.pid, whatever it holds.
removePidFile == pidFile' = 0

\* removePidFile lands; stop() awaits logDaemon("Daemon stopped").
StopUnlink ==
    /\ ~exited /\ stopPc = "unlink"
    /\ removePidFile
    /\ stopPc' = "exit"
    /\ UNCHANGED <<files, remote, events, watching, watcherAlive, running,
                   pendingChanges, timeouts, pollTimer, act, exited, errs,
                   errLog, lastSaved, sentSaved,
                   sinceSched, burst, fired, firedAt>>
    /\ UNCHANGED <<left, startVars, syncVars, runVars>>

\* process.exit(0): every callback in flight dies where it is.
StopExit ==
    /\ ~exited /\ stopPc = "exit"
    /\ exited' = TRUE
    /\ stopPc' = "done"
    /\ alive' = alive \ {DaemonPid}
    /\ active' = active \ {DaemonPid}
    /\ UNCHANGED <<left, files, remote, events, watching, watcherAlive, running,
                   pendingChanges, timeouts, pollTimer, act, pidFile, errs,
                   errLog, lastSaved, sentSaved,
                   sinceSched, burst, fired, firedAt, startPc, reclaimed, stopCmd>>
    /\ UNCHANGED <<syncVars, runVars>>

\* ------------------------------------------------------- the daemon's Spec
InitRemote(ct) ==
    [i \in Item |-> IF i = "PVTI_1"
                    THEN [present |-> TRUE, title |-> "t0", body |-> "b0",
                          ctype |-> "DraftIssue"]
                    ELSE Absent]

\* What the environment does in a run: user saves, user tombstones, remote
\* edits, failing remote calls, polls that fall into the run, stop signals,
\* and the number of callbacks followed at once.
Scenario ==
    { [saves |-> MaxBurst, tombs |-> 0, edits |-> 0, fails |-> 0, polls |-> 0,
       stops |-> 1, cap |-> 1, news |-> 0, cmds |-> 0],
      [saves |-> MaxSaves, tombs |-> 0, edits |-> 0, fails |-> 0, polls |-> 1,
       stops |-> 0, cap |-> MaxActive, news |-> 0, cmds |-> 0],
      [saves |-> 1, tombs |-> 1, edits |-> MaxRemoteEdits, fails |-> MaxFailures,
       polls |-> MaxPolls, stops |-> 1, cap |-> 1, news |-> 0, cmds |-> 0] }

\* DaemonRunner after start(): the watcher and the interval timer are set, no
\* event, timeout or callback is pending.
RunnerFresh ==
    /\ events = {} /\ watching = "none" /\ watcherAlive = TRUE
    /\ running = TRUE
    /\ pendingChanges = [f \in File |-> FALSE]
    /\ timeouts = [f \in File |-> <<>>]
    /\ pollTimer = TRUE
    /\ act = [a \in Slot |-> Idle]
    /\ stopPc = "none" /\ exited = FALSE
    /\ errs = 0 /\ errLog = 0
    /\ lastSaved = [f \in File |-> "none"]
    /\ sentSaved = [f \in File |-> FALSE]
    /\ sinceSched = [f \in File |-> 0]
    /\ burst = [f \in File |-> 0]
    /\ fired = [f \in File |-> 0]
    /\ firedAt = [f \in File |-> -1]
    /\ report = NoReport /\ lastOp = "none" /\ run = NoRun

\* The daemon's state after DaemonRunner.start() on a project that a pull
\* has just mirrored.
RunnerInit ==
    /\ \E ct \in {"DraftIssue"} :
          /\ remote = InitRemote(ct)
          /\ files = [f \in File |->
                        IF f = "t0.md"
                        THEN serializeItemToMarkdown("PVTI_1", InitRemote(ct)["PVTI_1"])
                        ELSE NoFile]
    /\ RunnerFresh

Init ==
    /\ RunnerInit
    /\ left \in Scenario
    /\ pidFile = DaemonPid /\ alive = {DaemonPid} /\ active = {DaemonPid}
    /\ startPc = [p \in Proc |-> IF p = DaemonPid THEN "running" ELSE "idle"]
    /\ reclaimed = {} /\ stopCmd = NoStopCmd

Next ==
    \/ \E f \in File, b \in Body : UserSave(f, b)
    \/ \E f \in File : UserTombstone(f)
    \/ \E i \in Item, t \in Title, b \in Body : RemoteEdit(i, t, b)
    \/ \E i \in Item : RemoteDelete(i)
    \/ Tick
    \/ \E f \in File : WatchTake(f)
    \/ WatchSchedule
    \/ \E f \in File, k \in 1..BurstCap : TimerFire(f, k)
    \/ \E a \in Slot : PushUpdate(a)
    \/ \E a \in Slot : PushWrite(a)
    \/ \E a \in Slot : PushDelete(a)
    \/ \E a \in Slot : PushUnlink(a)
    \/ PollFire
    \/ \E a \in Slot : PullList(a)
    \/ \E a \in Slot : PullLocal(a)
    \/ \E a \in Slot : PullTomb(a)
    \/ StopSignal
    \/ StopClear
    \/ StopUnlink
    \/ StopExit

Spec == Init /\ [][Next]_vars
\* ------------------------------------------------------ the start command
\* getDaemonStatus trusting the presence of daemon.pid alone.
getDaemonStatusNoProbe ==
    IF pidFile = 0 THEN "absent" ELSE "running"

\* getDaemonStatus up to its unlink: no daemon.pid, a record whose process
\* exists (process.kill(pid, 0) succeeds), or a stale record.
getDaemonStatus ==
    IF pidFile = 0 THEN "absent"
    ELSE IF pidFile \in alive THEN "running"
    ELSE "stale"

\* writePidFile(baseDir, pid, config): the record names pid.
writePidFile(pid) == pidFile' = pid

\* `gpfs daemon start --foreground` is run (by a user, or as the child the
\* background start spawns): a new process.
StartBegin(p) ==
    /\ startPc[p] = "idle"
    /\ startPc' = [startPc EXCEPT ![p] = "check"]
    /\ alive' = alive \cup {p}
    /\ UNCHANGED <<pidFile, active, reclaimed, stopCmd>>
    /\ UNCHANGED daemonVars

\* Start.start calls getDaemonStatus: a live record ends the command with
\* "Daemon is already running", a stale one is unlinked next.
StartCheck(p) ==
    /\ startPc[p] = "check"
    /\ LET st == getDaemonStatus
       IN /\ startPc' = [startPc EXCEPT ![p] =
                IF st = "running" THEN "error"
                ELSE IF st = "stale" THEN "unlink" ELSE "write"]
          /\ alive' = IF st = "running" THEN alive \ {p} ELSE alive
          /\ reclaimed' = IF st = "stale" THEN reclaimed \cup {p} ELSE reclaimed
    /\ UNCHANGED <<pidFile, active, stopCmd>>
    /\ UNCHANGED daemonVars

\* getDaemonStatus's unlink of the stale record lands: daemon.pid is removed,
\* whatever it holds by now.
StartUnlink(p) ==
    /\ startPc[p] = "unlink"
    /\ removePidFile
    /\ startPc' = [startPc EXCEPT ![p] = "write"]
    /\ UNCHANGED <<alive, active, reclaimed, stopCmd>>
    /\ UNCHANGED daemonVars

\* writePidFile(baseDir, process.pid, ...) lands.
StartWrite(p) ==
    /\ startPc[p] = "write"
    /\ writePidFile(p)
    /\ startPc' = [startPc EXCEPT ![p] = "start"]
    /\ UNCHANGED <<alive, active, reclaimed, stopCmd>>
    /\ UNCHANGED daemonVars

\* runner.start(): the process is a running daemon.
StartRunner(p) ==
    /\ startPc[p] = "start"
    /\ startPc' = [startPc EXCEPT ![p] = "running"]
    /\ active' = active \cup {p}
    /\ UNCHANGED <<pidFile, alive, reclaimed, stopCmd>>
    /\ UNCHANGED daemonVars

\* A running daemon gets SIGTERM: stop() removes daemon.pid and exits.
ProcStop(p) ==
    /\ startPc[p] = "running"
    /\ removePidFile
    /\ startPc' = [startPc EXCEPT ![p] = "exited"]
    /\ alive' = alive \ {p}
    /\ active' = active \ {p}
    /\ UNCHANGED <<reclaimed, stopCmd>>
    /\ UNCHANGED daemonVars

\* A running daemon is killed without running stop(): its record stays.
ProcKill(p) ==
    /\ startPc[p] = "running"
    /\ startPc' = [startPc EXCEPT ![p] = "dead"]
    /\ alive' = alive \ {p}
    /\ active' = active \ {p}
    /\ UNCHANGED <<pidFile, reclaimed, stopCmd>>
    /\ UNCHANGED daemonVars

\* stopDaemon calls getDaemonStatus: with a live record it sends SIGTERM to
\* the pid it read (the daemon's handling of the signal is ProcStop) and waits
\* 500 ms; a stale record is unlinked next; with none it ends with "Daemon is
\* not running".
StopDaemonCheck ==
    /\ stopCmd.pc = "idle"
    /\ LET st == getDaemonStatus
       IN stopCmd' = IF st = "running" THEN [pc |-> "wait", pid |-> pidFile]
                     ELSE IF st = "stale" THEN [pc |-> "stale", pid |-> 0]
                     ELSE [pc |-> "error", pid |-> 0]
    /\ UNCHANGED <<pidFile, alive, startPc, active, reclaimed>>
    /\ UNCHANGED daemonVars

\* getDaemonStatus's unlink of the stale record lands and stopDaemon ends
\* with "Daemon is not running".
StopDaemonStale ==
    /\ stopCmd.pc = "stale"
    /\ removePidFile
    /\ stopCmd' = [stopCmd EXCEPT !.pc = "error"]
    /\ UNCHANGED <<alive, startPc, active, reclaimed>>
    /\ UNCHANGED daemonVars

\* The 500 ms are over: stopDaemon calls removePidFile and reports
\* "Stopped daemon".
StopDaemonUnlink ==
    /\ stopCmd.pc = "wait"
    /\ removePidFile
    /\ stopCmd' = [stopCmd EXCEPT !.pc = "done"]
    /\ UNCHANGED <<alive, startPc, active, reclaimed>>
    /\ UNCHANGED daemonVars

InitStart ==
    /\ RunnerInit
    /\ left = [saves |-> 0, tombs |-> 0, edits |-> 0, fails |-> 0, polls |-> 0,
               stops |-> 0, cap |-> 0, news |-> 0, cmds |-> 0]
    /\ pidFile = 0 /\ alive = {} /\ active = {}
    /\ startPc = [p \in Proc |-> "idle"]
    /\ reclaimed = {} /\ stopCmd = NoStopCmd

NextStart ==
    \/ \E p \in Proc : StartBegin(p)
    \/ \E p \in Proc : StartCheck(p)
    \/ \E p \in Proc : StartUnlink(p)
    \/ \E p \in Proc : StartWrite(p)
    \/ \E p \in Proc : StartRunner(p)
    \/ \E p \in Proc : ProcStop(p)
    \/ \E p \in Proc : ProcKill(p)
    \/ StopDaemonCheck
    \/ StopDaemonStale
    \/ StopDaemonUnlink

SpecStart == InitStart /\ [][NextStart]_vars
\* ------------------------------------------- one-shot pull, push and status
\* Everything but the directory, the remote project, the budgets, the start
\* commands and the command report.
runnerVars == <<events, watching, watcherAlive, running, pendingChanges, timeouts,
                pollTimer, act, stopPc, exited, pidFile, errs, errLog, lastSaved,
                sentSaved, sinceSched, burst, fired, firedAt>>

\* The name of an item file without ".md" (push's title of a file without one).
Stem(f) ==
    CHOOSE t \in {"123", "123-2", "t0", "t0-2", "t0-3", "t1", "t1-2"} : t \o ".md" = f

\* typeof v === "string" for a parsed metadata value that is there.
IsText(v) == v # "" /\ v # "<boolean true>" /\ v # parseYamlValue("123")

\* The id the remote project gives the item that push creates.
NewItemId == "PVTI_2"

\* pullProject after its two remote reads: localItemMap, the loop over the
\* remote items, the tombstone pass, and the counts of its result.
pullProject(dir, rem) ==
    LET map == [i \in LocalId |-> LocalItemMap(dir, i)]
        st == PullItems([dir |-> dir, used |-> {f \in File : dir[f].present},
                         wrote |-> {}], rem, map, 1)
        tomb == ToTombstone(st.dir, rem, map)
    IN [files |-> [f \in File |-> IF f \in tomb THEN tombstone(st.dir[f])
                                               ELSE st.dir[f]],
        created |-> Cardinality({f \in st.wrote : ~dir[f].present}),
        updated |-> Cardinality({f \in st.wrote : dir[f].present}),
        deleted |-> Cardinality(tomb)]

\* updateLocalFileWithId: id, project_id and a nested `_sync` with the
\* checksum push computed, then the parsed body.
updateLocalFileWithId(fr, parsed, itemId, checksum) ==
    [fr EXCEPT !.meta = TRUE, !.id = itemId, !.project = ProjectId,
               !.sum = checksum, !.inl = FALSE, !.body = parsed.body]

\* updateLocalChecksum: a nested `_sync` with the new checksum, then the
\* parsed body.
updateLocalChecksum(fr, parsed, newChecksum) ==
    [fr EXCEPT !.meta = TRUE, !.sum = newChecksum, !.inl = FALSE,
               !.body = parsed.body]

\* A push that calls the remote delete for every tombstoned file.
deleteAlwaysCalls(remotePresent) == TRUE

\* Push deletes remotely when the tombstoned file's item is in the remote list.
deleteNeedsCall(remotePresent) == remotePresent

\* A push that takes no id for one the remote project has given.
hasCanonicalIdNever(itemId) == FALSE

\* itemId.startsWith("PVTI_"): the file was synced before.
hasCanonicalId(itemId) == itemId \in Item

\* Push sends a file of an item on both sides when a stored checksum is there
\* and differs from the checksum of the body.
pushNeedsUpdate(parsed) ==
    parsed.sum # "" /\ computeChecksum(parsed.body) # parsed.sum

\* pushProject's loop over localItems, from file number n on. dir and rem are
\* what push read before the loop; bad holds the files whose remote call
\* fails; coerce says whether spawn turns an argument that is no string into
\* text or throws. st holds the directory, the remote project and the counts.
RECURSIVE PushFiles(_, _, _, _, _, _)
PushFiles(st, dir, rem, bad, coerce, n) ==
    IF n > Len(FileOrder) \/ st.err THEN st
    ELSE
    LET f == FileOrder[n]
        parsed == parseMarkdownString(dir[f])
        itemId == parsed.id
        currentChecksum == computeChecksum(parsed.body)
        remotePresent == itemId \in Item /\ rem[itemId].present
        title == IF parsed.title # "" THEN parsed.title ELSE Stem(f)
        call(s) == [s EXCEPT !.called = @ \cup {f},
                             !.failed = IF f \in bad THEN @ \cup {f} ELSE @]
        st1 ==
          IF ~dir[f].present THEN st
          ELSE IF parsed.deleted
          THEN IF deleteNeedsCall(remotePresent)
               THEN \* ghDeleteItem, its result unread, then unlink
                    [call(st) EXCEPT
                        !.remote[itemId] = IF f \in bad THEN @ ELSE Absent,
                        !.files[f] = NoFile, !.deleted = @ + 1]
               ELSE [st EXCEPT !.files[f] = NoFile, !.deleted = @ + 1]
          ELSE IF ~remotePresent
          THEN IF hasCanonicalId(itemId)
               THEN [st EXCEPT !.unchanged = @ + 1]
               ELSE IF ~IsText(title) /\ ~coerce
               THEN [st EXCEPT !.err = TRUE]
               ELSE IF f \in bad
               THEN \* "Failed to create item" is thrown
                    [call(st) EXCEPT !.err = TRUE]
               ELSE [call(st) EXCEPT
                        !.remote[NewItemId] =
                            [present |-> TRUE, title |-> ToText(title),
                             body |-> parsed.body, ctype |-> "DraftIssue"],
                        !.files[f] = updateLocalFileWithId(dir[f], parsed,
                                         NewItemId, currentChecksum),
                        !.created = @ + 1]
          ELSE IF pushNeedsUpdate(parsed) /\ rem[itemId].ctype = "DraftIssue"
          THEN IF ~IsText(parsed.title) /\ ~coerce
               THEN [st EXCEPT !.err = TRUE]
               ELSE \* ghUpdateDraftIssue, its result unread, then the rewrite
                    [call(st) EXCEPT
                        !.remote[itemId] =
                            IF f \in bad THEN @
                            ELSE [@ EXCEPT !.title = ToText(parsed.title),
                                           !.body = parsed.body],
                        !.files[f] = updateLocalChecksum(dir[f], parsed,
                                                         currentChecksum),
                        !.updated = @ + 1]
          ELSE [st EXCEPT !.unchanged = @ + 1]
    IN PushFiles(st1, dir, rem, bad, coerce, n + 1)

\* pushProject after its two remote reads.
pushProject(dir, rem, bad, coerce) ==
    PushFiles([files |-> dir, remote |-> rem, created |-> 0, updated |-> 0,
               deleted |-> 0, unchanged |-> 0, err |-> FALSE, called |-> {},
               failed |-> {}], dir, rem, bad, coerce, 1)

\* getProjectStatus: the six categories, local ones as file names and remote
\* ones as item ids.
localChanged(fr) == pushNeedsUpdate(parseMarkdownString(fr))

remoteChanged(fr, item) ==
    \/ item.title # parseMarkdownString(fr).title
    \/ item.body # parseMarkdownString(fr).body

remoteModifiedAlways(fr, item) == remoteChanged(fr, item)

\* "Only show as remote modified if local hasn't also changed".
remoteModifiedShown(fr, item) == remoteChanged(fr, item) /\ ~localChanged(fr)

\* A status that lists every remote item as new.
getProjectStatusAllNew(dir, rem) ==
    LET synced == {f \in File : dir[f].present /\ dir[f].id \in Item}
        live == {f \in synced : ~dir[f].deleted /\ rem[dir[f].id].present}
    IN [localNew |-> {f \in File : dir[f].present /\ dir[f].id \notin Item},
        localDeleted |-> {f \in synced : dir[f].deleted /\ rem[dir[f].id].present},
        remoteDeleted |-> {f \in synced : ~dir[f].deleted /\ ~rem[dir[f].id].present},
        localModified |-> {f \in live : localChanged(dir[f])},
        remoteModified |-> {dir[f].id : f \in
                               {g \in live : remoteModifiedShown(dir[g], rem[dir[g].id])}},
        remoteNew |-> {i \in Item : rem[i].present}]

getProjectStatus(dir, rem) ==
    LET synced == {f \in File : dir[f].present /\ dir[f].id \in Item}
        live == {f \in synced : ~dir[f].deleted /\ rem[dir[f].id].present}
    IN [localNew |-> {f \in File : dir[f].present /\ dir[f].id \notin Item},
        localDeleted |-> {f \in synced : dir[f].deleted /\ rem[dir[f].id].present},
        remoteDeleted |-> {f \in synced : ~dir[f].deleted /\ ~rem[dir[f].id].present},
        localModified |-> {f \in live : localChanged(dir[f])},
        remoteModified |-> {dir[f].id : f \in
                               {g \in live : remoteModifiedShown(dir[g], rem[dir[g].id])}},
        remoteNew |-> {i \in Item : rem[i].present /\ \A f \in synced : dir[f].id # i}]

\* The user writes a new body into an item file.
SyncEdit(f, b) ==
    /\ left.saves > 0
    /\ files[f].present /\ files[f].body # b
    /\ files' = [files EXCEPT ![f].body = b]
    /\ left' = [left EXCEPT !.saves = @ - 1]
    /\ lastOp' = "none"
    /\ UNCHANGED <<remote, report, runnerVars, startVars, runVars>>

\* The user writes a new title into the metadata block of an item file and
\* leaves the body as it is.
SyncRetitle(f, t) ==
    /\ left.saves > 0
    /\ files[f].present /\ files[f].meta /\ files[f].title # t
    /\ files' = [files EXCEPT ![f].title = t]
    /\ left' = [left EXCEPT !.saves = @ - 1]
    /\ lastOp' = "none"
    /\ UNCHANGED <<remote, report, runnerVars, startVars, runVars>>

\* The user writes a new file of their own: "plain" has no metadata block,
\* "titled" a block with a title, "draft" a block with a title and an id of
\* the user's making, "open" a block that is opened but never closed.
NewKind == {"plain", "titled", "draft", "open"}

SyncNew(f, k, b) ==
    /\ left.news > 0
    /\ f = "t1.md" /\ ~files[f].present
    /\ k \in {"draft", "open"} => b = "b0"
    /\ files' = [files EXCEPT ![f] =
            [NoFile EXCEPT !.present = TRUE,
                           !.meta = k \in {"titled", "draft"},
                           !.title = IF k \in {"titled", "draft"} THEN "t1" ELSE "",
                           !.id = IF k = "draft" THEN "draft-1" ELSE "",
                           !.body = IF k = "open" THEN OpenBlock ELSE b]]
    /\ left' = [left EXCEPT !.news = @ - 1]
    /\ lastOp' = "none"
    /\ UNCHANGED <<remote, report, runnerVars, startVars, runVars>>

\* The user marks an item file `deleted: true`.
SyncTombstone(f) ==
    /\ left.tombs > 0
    /\ files[f].present /\ files[f].meta /\ ~files[f].deleted
    /\ files' = [files EXCEPT ![f].deleted = TRUE]
    /\ left' = [left EXCEPT !.tombs = @ - 1]
    /\ lastOp' = "none"
    /\ UNCHANGED <<remote, report, runnerVars, startVars, runVars>>

\* Somebody edits or deletes an item on the remote service.
SyncRemoteEdit(i, t, b) ==
    /\ left.edits > 0
    /\ remote[i].present
    /\ remote[i].title # t \/ remote[i].body # b
    /\ remote' = [remote EXCEPT ![i].title = t, ![i].body = b]
    /\ left' = [left EXCEPT !.edits = @ - 1]
    /\ lastOp' = "none"
    /\ UNCHANGED <<files, report, runnerVars, startVars, runVars>>

SyncRemoteDelete(i) ==
    /\ left.edits > 0
    /\ remote[i].present
    /\ remote' = [remote EXCEPT ![i] = Absent]
    /\ left' = [left EXCEPT !.edits = @ - 1]
    /\ lastOp' = "none"
    /\ UNCHANGED <<files, report, runnerVars, startVars, runVars>>

\* `gpfs pull` on the project: ghProjectView or ghProjectItemList fails and
\* the command throws, or pullProject runs to its result.
PullCmd(fail) ==
    /\ left.cmds > 0
    /\ fail => left.fails > 0
    /\ left' = [left EXCEPT !.cmds = @ - 1,
                            !.fails = IF fail THEN @ - 1 ELSE @]
    /\ IF fail
       THEN /\ report' = [NoReport EXCEPT !.kind = "pull", !.err = TRUE]
            /\ lastOp' = "none"
            /\ UNCHANGED files
       ELSE LET r == pullProject(files, remote)
            IN /\ files' = r.files
               /\ report' = [NoReport EXCEPT !.kind = "pull",
                                !.created = r.created, !.updated = r.updated,
                                !.deleted = r.deleted]
               /\ lastOp' = "pull"
    /\ UNCHANGED <<remote, runnerVars, startVars, runVars>>

\* `gpfs push` on the project: pushProject runs to its result or to the
\* first exception.
PushCmd(bad, coerce) ==
    /\ left.cmds > 0
    /\ bad # {} => left.fails > 0
    /\ LET r == pushProject(files, remote, bad, coerce)
       IN /\ bad \subseteq r.called
          /\ files' = r.files
          /\ remote' = r.remote
          /\ report' = [kind |-> "push", created |-> r.created,
                        updated |-> r.updated, deleted |-> r.deleted,
                        unchanged |-> r.unchanged, err |-> r.err,
                        called |-> r.called, failed |-> r.failed]
          /\ lastOp' = IF r.err THEN "pushfail" ELSE "push"
    /\ left' = [left EXCEPT !.cmds = @ - 1,
                            !.fails = IF bad # {} THEN @ - 1 ELSE @]
    /\ UNCHANGED <<runnerVars, startVars, runVars>>

\* What the environment does between the commands of a run: a local and a
\* remote edit of a synced item; a tombstone and a remote edit or deletion; a
\* new local file and a remote edit.
SyncScenario ==
    { [saves |-> 1, tombs |-> 0, edits |-> MaxRemoteEdits, fails |-> MaxFailures,
       polls |-> 0, stops |-> 0, cap |-> 0, news |-> 0, cmds |-> MaxCmds],
      [saves |-> 0, tombs |-> 1, edits |-> MaxRemoteEdits, fails |-> MaxFailures,
       polls |-> 0, stops |-> 0, cap |-> 0, news |-> 0, cmds |-> MaxCmds],
      [saves |-> 0, tombs |-> 0, edits |-> MaxRemoteEdits, fails |-> MaxFailures,
       polls |-> 0, stops |-> 0, cap |-> 0, news |-> 1, cmds |-> MaxCmds] }

\* No daemon runs and none was started.
NoDaemon ==
    /\ events = {} /\ watching = "none" /\ watcherAlive = FALSE
    /\ running = FALSE
    /\ pendingChanges = [f \in File |-> FALSE]
    /\ timeouts = [f \in File |-> <<>>]
    /\ pollTimer = FALSE
    /\ act = [a \in Slot |-> Idle]
    /\ stopPc = "none" /\ exited = FALSE
    /\ errs = 0 /\ errLog = 0
    /\ lastSaved = [f \in File |-> "none"]
    /\ sentSaved = [f \in File |-> FALSE]
    /\ sinceSched = [f \in File |-> 0]
    /\ burst = [f \in File |-> 0]
    /\ fired = [f \in File |-> 0]
    /\ firedAt = [f \in File |-> -1]
    /\ pidFile = 0 /\ alive = {} /\ active = {}
    /\ startPc = [p \in Proc |-> "idle"]
    /\ reclaimed = {} /\ stopCmd = NoStopCmd

\* A tracked project with one remote item and an empty directory; no daemon.
SyncInit ==
    /\ \E t \in SyncTitle, b \in SyncBody, ct \in {"DraftIssue", "Issue"} :
          remote = [i \in Item |->
                      IF i = "PVTI_1"
                      THEN [present |-> TRUE, title |-> t, body |-> b, ctype |-> ct]
                      ELSE Absent]
    /\ files = [f \in File |-> NoFile]
    /\ left \in SyncScenario
    /\ report = NoReport /\ lastOp = "none" /\ run = NoRun
    /\ NoDaemon

NextSync ==
    \/ \E f \in File, b \in SyncBody : SyncEdit(f, b)
    \/ \E f \in File : SyncRetitle(f, "t1")
    \/ \E f \in File, k \in NewKind, b \in SyncBody : SyncNew(f, k, b)
    \/ \E f \in File : SyncTombstone(f)
    \/ \E i \in Item, t \in SyncTitle, b \in SyncBody : SyncRemoteEdit(i, t, b)
    \/ \E i \in Item : SyncRemoteDelete(i)
    \/ \E fail \in BOOLEAN : PullCmd(fail)
    \/ \E f \in File, coerce \in BOOLEAN : PushCmd({f}, coerce)
    \/ \E coerce \in BOOLEAN : PushCmd({}, coerce)

SpecSync == SyncInit /\ [][NextSync]_vars

\* ------------------------------------------- the watcher with two item files
\* A project of two draft items, mirrored by a pull into t0.md and t1.md.
TwoItems ==
    [i \in Item |-> [present |-> TRUE,
                     title |-> IF i = "PVTI_1" THEN "t0" ELSE "t1",
                     body |-> "b0", ctype |-> "DraftIssue"]]

\* The daemon after DaemonRunner.start() on that project; the user will save
\* up to MaxSaves times into either file and may send one stop signal.
InitTimers ==
    /\ remote = TwoItems
    /\ files = [f \in File |->
                  IF f = "t0.md" THEN serializeItemToMarkdown("PVTI_1", TwoItems["PVTI_1"])
                  ELSE IF f = "t1.md"
                  THEN serializeItemToMarkdown("PVTI_2", TwoItems["PVTI_2"])
                  ELSE NoFile]
    /\ left = [saves |-> MaxSaves, tombs |-> 0, edits |-> 0, fails |-> 0, polls |-> 0,
               stops |-> 1, cap |-> MaxActive, news |-> 0, cmds |-> 0]
    /\ events = {} /\ watching = "none" /\ watcherAlive = TRUE
    /\ running = TRUE
    /\ pendingChanges = [f \in File |-> FALSE]
    /\ timeouts = [f \in File |-> <<>>]
    /\ pollTimer = TRUE
    /\ act = [a \in Slot |-> Idle]
    /\ stopPc = "none" /\ exited = FALSE
    /\ errs = 0 /\ errLog = 0
    /\ lastSaved = [f \in File |-> "none"]
    /\ sentSaved = [f \in File |-> FALSE]
    /\ sinceSched = [f \in File |-> 0]
    /\ burst = [f \in File |-> 0]
    /\ fired = [f \in File |-> 0]
    /\ firedAt = [f \in File |-> -1]
    /\ report = NoReport /\ lastOp = "none" /\ run = NoRun
    /\ pidFile = DaemonPid /\ alive = {DaemonPid} /\ active = {DaemonPid}
    /\ startPc = [p \in Proc |-> IF p = DaemonPid THEN "running" ELSE "idle"]
    /\ reclaimed = {} /\ stopCmd = NoStopCmd

NextTimers ==
    \/ \E f \in File, b \in Body : UserSave(f, b)
    \/ Tick
    \/ \E f \in File : WatchTake(f)
    \/ WatchSchedule
    \/ \E f \in File, k \in 1..BurstCap : TimerFire(f, k)
    \/ \E a \in Slot : PushUpdate(a)
    \/ \E a \in Slot : PushWrite(a)
    \/ StopSignal
    \/ StopClear
    \/ StopUnlink
    \/ StopExit

\* The event loop runs every callback that is ready and time passes: the
\* watcher loop takes a delivered event and resumes after its await, a timer
\* that is due fires, a remote call returns, a write lands, stop() proceeds.
FairTimers ==
    /\ WF_vars(Tick)
    /\ WF_vars(\E f \in File : WatchTake(f))
    /\ WF_vars(WatchSchedule)
    /\ \A f \in File : WF_vars(\E k \in 1..BurstCap : TimerFire(f, k))
    /\ WF_vars(\E a \in Slot : PushUpdate(a))
    /\ WF_vars(\E a \in Slot : PushWrite(a))
    /\ WF_vars(StopClear) /\ WF_vars(StopUnlink) /\ WF_vars(StopExit)

SpecTimers == InitTimers /\ [][NextTimers]_vars /\ FairTimers

\* ------------------------------------------- the pass over tracked projects
\* The tracked projects, in the order getTrackedProjects returns them.
Project == {"o/1", "o/2", "o/3"}
ProjectOrder == <<"o/1", "o/2", "o/3">>

\* What a command is given: no identifier, the identifier of a tracked
\* project, or one of a project that is not tracked.
Identifier == Project \cup {"all", "o/9"}

\* projectsToPush, projectsToPull, and the projects of pullAllProjects: all
\* tracked projects, or the one that was named if it is tracked.
Requested(ident) ==
    IF ident = "all" THEN ProjectOrder
    ELSE IF ident \in Project THEN <<ident>> ELSE <<>>

Range(q) == {q[k] : k \in 1..Len(q)}

\* `gpfs push`, `gpfs pull` or the daemon's poll begins its pass; bad holds
\* the projects whose pushProject or pullProject throws (or, in the poll, whose
\* remote read fails).
RunStart(kind, ident, bad) ==
    /\ run.kind = "none"
    /\ kind = "poll" => ident = "all"
    /\ bad \subseteq Range(Requested(ident))
    /\ run' = [kind |-> kind, req |-> Requested(ident), todo |-> Requested(ident),
               tried |-> <<>>, errors |-> {}, bad |-> bad, done |-> FALSE]
    /\ UNCHANGED <<left, files, remote, runnerVars, startVars, syncVars>>

\* A loop whose body has no try/catch: the first error ends the pass.
afterErrorAbort(todo) == <<>>

\* catch (err) { results.push({project, ..., error}) }: the loop goes on with
\* the next project.
afterError(todo) == Tail(todo)

\* One turn of `for (const project of projects)`: the project is attempted
\* and its result, or its error, is pushed to results.
RunProject ==
    /\ run.kind # "none" /\ ~run.done /\ run.todo # <<>>
    /\ LET p == Head(run.todo)
       IN run' = [run EXCEPT !.tried = Append(@, p),
                             !.errors = IF p \in run.bad THEN @ \cup {p} ELSE @,
                             !.todo = IF p \in run.bad THEN afterError(@)
                                                        ELSE Tail(@)]
    /\ UNCHANGED <<left, files, remote, runnerVars, startVars, syncVars>>

\* The loop is over: setState({status: "success", results}) or the poll's
\* return of its message.
RunEnd ==
    /\ run.kind # "none" /\ ~run.done /\ run.todo = <<>>
    /\ run' = [run EXCEPT !.done = TRUE]
    /\ UNCHANGED <<left, files, remote, runnerVars, startVars, syncVars>>

InitRuns ==
    /\ SyncInit
    /\ left.saves = 1
    /\ remote["PVTI_1"] = [present |-> TRUE, title |-> "t0", body |-> "b0",
                           ctype |-> "DraftIssue"]

NextRuns ==
    \/ \E kind \in {"push", "pull", "poll"}, ident \in Identifier,
          bad \in SUBSET Project : RunStart(kind, ident, bad)
    \/ RunProject
    \/ RunEnd

SpecRuns == InitRuns /\ [][NextRuns]_vars

\* ----------------------------------------------- the names of pulled items
\* Titles of remote items of which two sanitize to the same name.
NameTitle == {"t0", "T0", "t1"}

\* What the project directory holds at t0.md before the pull: nothing, a file
\* of the user's without a metadata block, one with a title and no id, or the
\* file an earlier pull wrote for PVTI_1.
Existing ==
    { NoFile,
      [NoFile EXCEPT !.present = TRUE, !.body = "b0"],
      [NoFile EXCEPT !.present = TRUE, !.meta = TRUE, !.title = "t1", !.body = "b0"],
      serializeItemToMarkdown("PVTI_1", [title |-> "t0", body |-> "b0",
                                         ctype |-> "DraftIssue"]) }

InitNames ==
    /\ left = [saves |-> 0, tombs |-> 0, edits |-> 0, fails |-> MaxFailures,
               polls |-> 0, stops |-> 0, cap |-> 0, news |-> 0, cmds |-> 2]
    /\ report = NoReport /\ lastOp = "none" /\ run = NoRun
    /\ NoDaemon

\* One or two remote draft items and what t0.md held before.
StartNames ==
    \E a \in NameTitle, b \in NameTitle, two \in BOOLEAN, ex \in Existing :
        /\ InitNames
        /\ remote = [i \in Item |->
                       IF i = "PVTI_1" \/ two
                       THEN [present |-> TRUE,
                             title |-> IF i = "PVTI_1" THEN a ELSE b,
                             body |-> "b1", ctype |-> "DraftIssue"]
                       ELSE Absent]
        /\ files = [f \in File |-> IF f = "t0.md" THEN ex ELSE NoFile]

NextNames == \E fail \in BOOLEAN : PullCmd(fail)

SpecNames == StartNames /\ [][NextNames]_vars

\* ------------------------------------------ the daemon and a file of the user
\* The user creates an item file in the project directory as the generated
\* CLAUDE.md describes: a metadata block with a title, no id, and a body.
UserCreate(f, b) ==
    /\ ~exited /\ left.news > 0
    /\ f = "t1.md" /\ ~files[f].present
    /\ files' = [files EXCEPT ![f] =
            [NoFile EXCEPT !.present = TRUE, !.meta = TRUE, !.title = "t1",
                           !.body = b]]
    /\ events' = Emit(f)
    /\ lastSaved' = [lastSaved EXCEPT ![f] = b]
    /\ sentSaved' = [sentSaved EXCEPT ![f] = FALSE]
    /\ left' = [left EXCEPT !.news = @ - 1]
    /\ UNCHANGED <<remote, watching, watcherAlive, running, pendingChanges, timeouts,
                   pollTimer, act, stopPc, exited, pidFile, errs, errLog,
                   sinceSched, burst, fired, firedAt>>
    /\ UNCHANGED <<startVars, syncVars, runVars>>

\* The daemon after DaemonRunner.start() on a project of one draft item held
\* in t0.md; the user will create one file and save once, the interval timer
\* fires once, and one stop signal may come.
InitCreate ==
    /\ RunnerInit
    /\ left = [saves |-> 1, tombs |-> 0, edits |-> 0, fails |-> 0, polls |-> 1,
               stops |-> 1, cap |-> MaxActive, news |-> 1, cmds |-> 0]
    /\ pidFile = DaemonPid /\ alive = {DaemonPid} /\ active = {DaemonPid}
    /\ startPc = [p \in Proc |-> IF p = DaemonPid THEN "running" ELSE "idle"]
    /\ reclaimed = {} /\ stopCmd = NoStopCmd

NextCreate ==
    \/ \E f \in File, b \in Body : UserCreate(f, b)
    \/ \E f \in File, b \in Body : UserSave(f, b)
    \/ Tick
    \/ \E f \in File : WatchTake(f)
    \/ WatchSchedule
    \/ \E f \in File, k \in 1..BurstCap : TimerFire(f, k)
    \/ \E a \in Slot : PushUpdate(a)
    \/ \E a \in Slot : PushWrite(a)
    \/ PollFire
    \/ \E a \in Slot : PullList(a)
    \/ \E a \in Slot : PullLocal(a)
    \/ \E a \in Slot : PullTomb(a)
    \/ StopSignal
    \/ StopClear
    \/ StopUnlink
    \/ StopExit

\* The event loop as in FairTimers, and the interval timer and the steps of
\* its pull.
FairCreate ==
    /\ FairTimers
    /\ WF_vars(PollFire)
    /\ WF_vars(\E a \in Slot : PullList(a))
    /\ WF_vars(\E a \in Slot : PullLocal(a))
    /\ WF_vars(\E a \in Slot : PullTomb(a))

SpecCreate == InitCreate /\ [][NextCreate]_vars /\ FairCreate

\* ------------------------------------------- the daemon left to itself
\* The interval timer is periodic: it comes round again after a poll.
PollRenew ==
    /\ ~exited /\ pollTimer
    /\ left.polls = 0
    /\ \A a \in Slot : act[a].kind # "pull"
    /\ left' = [left EXCEPT !.polls = 1]
    /\ UNCHANGED <<files, remote, runnerVars, startVars, syncVars, runVars>>

\* The daemon after start() on a project of one draft item that a pull has
\* mirrored, titled t0 or 123; one save by the user or one edit on the remote
\* will follow.
InitQuiet ==
    /\ \E t \in SyncTitle :
          /\ remote = [i \in Item |->
                         IF i = "PVTI_1"
                         THEN [present |-> TRUE, title |-> t, body |-> "b0",
                               ctype |-> "DraftIssue"]
                         ELSE Absent]
          /\ files = [f \in File |->
                        IF f = UniqueFilename(t, {})
                        THEN serializeItemToMarkdown("PVTI_1", remote["PVTI_1"])
                        ELSE NoFile]
    /\ RunnerFresh
    /\ \E s \in 0..1 :
          left = [saves |-> s, tombs |-> 0, edits |-> 1 - s, fails |-> 0,
                  polls |-> 1, stops |-> 0, cap |-> MaxActive, news |-> 0,
                  cmds |-> 0]
    /\ pidFile = DaemonPid /\ alive = {DaemonPid} /\ active = {DaemonPid}
    /\ startPc = [p \in Proc |-> IF p = DaemonPid THEN "running" ELSE "idle"]
    /\ reclaimed = {} /\ stopCmd = NoStopCmd

NextQuiet ==
    \/ \E f \in File, b \in Body : UserSave(f, b)
    \/ \E i \in Item, t \in Title, b \in Body : RemoteEdit(i, t, b)
    \/ Tick
    \/ \E f \in File : WatchTake(f)
    \/ WatchSchedule
    \/ \E f \in File, k \in 1..BurstCap : TimerFire(f, k)
    \/ \E a \in Slot : PushUpdate(a)
    \/ \E a \in Slot : PushWrite(a)
    \/ PollFire
    \/ PollRenew
    \/ \E a \in Slot : PullList(a)
    \/ \E a \in Slot : PullLocal(a)
    \/ \E a \in Slot : PullTomb(a)

\* The event loop as in FairCreate; the interval timer keeps coming round.
FairQuiet ==
    /\ FairCreate
    /\ WF_vars(PollRenew)

SpecQuiet == InitQuiet /\ [][NextQuiet]_vars /\ FairQuiet

\* ------------------------------------------------------------------ claims
InFlight == {a \in Slot : act[a] # Idle}

\* getProjectStatus's localModified for an item file with a canonical id that
\* is not marked deleted: a stored checksum is there and the body's checksum
\* differs from it.
localModified(fm) ==
    /\ fm.present /\ fm.id \in Item /\ ~fm.deleted
    /\ storedChecksum(fm) # "" /\ computeChecksum(fm.body) # storedChecksum(fm)

\* C1: a pull leaves every item file unchanged whose body checksum differs from
\* its stored baseline checksum (localModified), also when the remote title or
\* body differs from the local one.
C1_PullSparesLocalModified ==
    [][(\E a \in Slot : PullLocal(a)) =>
          \A f \in File : localModified(files[f]) => files'[f] = files[f]]_vars

\* C2: while the daemon runs no saved edit is lost: the body the user last
\* saved into a file is still the file's body or has been sent to the remote
\* item.
C2_NoSavedEditLost ==
    \A f \in File :
        lastSaved[f] # "none" =>
            \/ files[f].present /\ files[f].body = lastSaved[f]
            \/ sentSaved[f]

\* C3: at most one daemon action (push-this-file or pull-all-projects) is
\* executing at any moment.
C3_OneActionAtATime == Cardinality(InFlight) <= 1

\* C4: the push-this-file actions of one file execute in the order their
\* timers expired: the action of the earlier edit has completed (remote update
\* and metadata rewrite) when the action of the later edit starts.
C4_PushesInTriggerOrder ==
    \A a, b \in Slot :
        (a # b /\ act[a].kind = "push" /\ act[b].kind = "push")
            => act[a].file # act[b].file

\* C5: a start that finds the lock record naming a live process fails with
\* "already running" and changes neither the record nor the running daemon; a
\* start that finds the record naming a process that no longer exists goes on,
\* never fails, and writes a record naming the new process.
C5_StartChecksLiveness ==
    [][\A p \in Proc :
          /\ (startPc[p] = "check" /\ startPc'[p] # "check"
                /\ pidFile # 0 /\ pidFile \in alive)
                => /\ startPc'[p] = "error"
                   /\ pidFile' = pidFile /\ active' = active
                   /\ alive' = alive \ {p}
          /\ (startPc[p] = "check" /\ startPc'[p] # "check"
                /\ pidFile # 0 /\ pidFile \notin alive)
                => /\ startPc'[p] = "unlink" /\ p \in reclaimed'
                   /\ active' = active
          /\ (startPc[p] = "unlink" /\ startPc'[p] # "unlink")
                => startPc'[p] = "write"
          /\ (startPc[p] = "write" /\ startPc'[p] # "write")
                => startPc'[p] = "start" /\ pidFile' = p
          /\ (startPc[p] = "start" /\ startPc'[p] # "start")
                => startPc'[p] = "running" /\ p \in active'
          /\ startPc[p] = "error" => startPc'[p] = "error" /\ p \notin active'
      ]_vars

\* A start failed on a live record, and another start reclaimed a stale record
\* and runs with the record naming it.
C5_Witness ==
    /\ \E q \in Proc : startPc[q] = "error"
    /\ \E p \in reclaimed : startPc[p] = "running" /\ pidFile = p

\* C6: at every moment at most one daemon process is active for the root.
C6_SingleDaemon == Cardinality(active) <= 1

\* C7: the daemon process exits only after the push or pull in flight has run
\* to completion.
C7_ExitAfterActionCompletes == exited => InFlight = {}

\* C8: when stop has completed (the process exits), every pending debounce
\* timer and the poll timer have been cancelled and the lock record is removed.
C8_StopCancelsEverything ==
    exited => /\ \A f \in File : timeouts[f] = <<>> /\ ~pendingChanges[f]
              /\ ~pollTimer
              /\ pidFile = 0

\* C9: every failed daemon action is logged, and while no stop is requested a
\* failure leaves the daemon running with the poll timer set, the watcher
\* alive, the lock record in place and every pending debounce timer live, so
\* that the poll trigger still starts a pull and a debounce timer that is due
\* still starts its push.
C9_ErrorsKeepDaemonRunning ==
    /\ errLog = errs
    /\ (errs > 0 /\ stopPc = "none") =>
          /\ running /\ ~exited /\ pollTimer /\ watcherAlive
          /\ pidFile = DaemonPid
          /\ \A f \in File : pendingChanges[f] => Len(timeouts[f]) = 1
          /\ (left.polls > 0 /\ FreeSlots # {}) => ENABLED PollFire
          /\ \A f \in File : \A k \in 1..Len(timeouts[f]) :
                (timeouts[f][k] = 0 /\ FreeSlots # {}) => ENABLED TimerFire(f, k)

\* After a failed action a later file change has started a push (one action
\* at a time in this scenario, so the push began after the failure).
C9_Witness ==
    /\ errs > 0 /\ left.cap = 1
    /\ \E a \in Slot : act[a].kind = "push"

\* C10: the change events of a burst (each arriving while the timer of the
\* previous one is pending) leave exactly one timer, due one debounce delay
\* after the last event, and produce exactly one push-this-file action,
\* started when that delay has passed.
C10_DebounceCoalesces ==
    \A f \in File :
        burst[f] >= 1 =>
            \/ /\ Len(timeouts[f]) = 1 /\ pendingChanges[f] /\ fired[f] = 0
               /\ timeouts[f][1] = Debounce - sinceSched[f]
            \/ /\ timeouts[f] = <<>> /\ ~pendingChanges[f] /\ fired[f] = 1
               /\ firedAt[f] = Debounce

\* Three change events of one file were coalesced into one push.
C10_Witness ==
    \E f \in File : burst[f] >= 3 /\ fired[f] = 1 /\ firedAt[f] = Debounce

\* C11: debounce timers are per file. Scheduling the push of one file leaves
\* the pending timer of every other file as it was, and every change event of
\* an .md file leads, unless a stop is requested, to a state where the file has
\* no event and no timer pending and a push of it has started.
C11_TimersPerFile ==
    /\ [][\A f \in File :
             (watching = f /\ watching' = "none") =>
                 \A g \in File \ {f} :
                     /\ timeouts'[g] = timeouts[g]
                     /\ pendingChanges'[g] = pendingChanges[g]]_vars
    /\ \A f \in File :
          (f \in events) ~>
              \/ stopPc # "none"
              \/ /\ f \notin events /\ watching # f
                 /\ timeouts[f] = <<>> /\ ~pendingChanges[f]
                 /\ fired[f] >= 1

\* The pushes of both files have started while the other file's timer was
\* pending at the time of its own change event, with no stop requested.
C11_Witness ==
    /\ stopPc = "none"
    /\ fired["t0.md"] = 1 /\ fired["t1.md"] = 1
    /\ burst["t0.md"] >= 1 /\ burst["t1.md"] >= 1
    /\ firedAt["t0.md"] = Debounce /\ firedAt["t1.md"] = Debounce
    /\ left.saves = MaxSaves - 2

\* A one-shot command ran in this step.
PullRan == left'.cmds < left.cmds /\ report'.kind = "pull"
PushRan == left'.cmds < left.cmds /\ report'.kind = "push"

\* The item of file f exists on both sides, the local body diverged from the
\* stored checksum and the remote title or body differs from the local one.
BothChanged(f) ==
    /\ files[f].present /\ files[f].id \in Item /\ ~files[f].deleted
    /\ remote[files[f].id].present
    /\ localChanged(files[f])
    /\ remoteChanged(files[f], remote[files[f].id])

\* C12: an item on both sides whose local body diverged from the stored
\* checksum while the remote title or body differs from the local one is
\* placed in localModified and not in remoteModified by getProjectStatus.
C12_LocalWinsInStatus ==
    \A f \in File :
        BothChanged(f) =>
            /\ f \in getProjectStatus(files, remote).localModified
            /\ files[f].id \notin getProjectStatus(files, remote).remoteModified

\* An item edited locally and retitled remotely after a pull, reported as
\* localModified.
C12_Witness ==
    \E f \in File :
        /\ BothChanged(f) /\ left.saves = 0 /\ left.edits = 0
        /\ Trim(files[f].body) = files[f].body
        /\ IsText(parseMarkdownString(files[f]).title)
        /\ files[f].sum # computeChecksum(files[f].body)
        /\ remote[files[f].id].title # files[f].title
        /\ f \in getProjectStatus(files, remote).localModified

\* The file and its item are in none of the six categories of the status.
FullySynced(f, i, st) ==
    /\ f \notin st.localModified /\ f \notin st.localNew
    /\ f \notin st.localDeleted /\ f \notin st.remoteDeleted
    /\ i \notin st.remoteModified /\ i \notin st.remoteNew

\* C13: for a draft item changed both locally and remotely (its file has a
\* text title and a body without surrounding whitespace), after a push that
\* completes with every remote call succeeding the remote title and body are
\* the local file's title and body, and getProjectStatus puts the item in
\* none of its six categories.
C13_PushSyncsConflict ==
    [][\A f \in File :
          (/\ BothChanged(f) /\ remote[files[f].id].ctype = "DraftIssue"
           /\ Trim(files[f].body) = files[f].body
           /\ IsText(parseMarkdownString(files[f]).title)
           /\ PushRan /\ ~report'.err /\ report'.failed = {})
          => /\ files'[f].present
             /\ remote'[files[f].id].title
                    = ToText(parseMarkdownString(files'[f]).title)
             /\ remote'[files[f].id].body = parseMarkdownString(files'[f]).body
             /\ FullySynced(f, files[f].id, getProjectStatus(files', remote'))
      ]_vars

\* C14: when the remote create or update call of a push fails, the stored
\* checksum of the file is left as it was and the next status still has the
\* file in localModified or localNew.
C14_FailedPushKeepsChecksum ==
    [][PushRan =>
          \A f \in report'.failed :
              ~files[f].deleted =>
                  /\ files'[f].present
                  /\ files'[f].sum = files[f].sum /\ files'[f].inl = files[f].inl
                  /\ f \in getProjectStatus(files', remote').localModified
                           \cup getProjectStatus(files', remote').localNew
      ]_vars

\* C15: push removes an item file only when its remote delete succeeded or
\* its item was absent from the remote list; pull removes no file.
C15_FileRemovedOnlyAfterDelete ==
    [][/\ PushRan =>
            \A f \in File :
                (files[f].present /\ ~files'[f].present) =>
                    \/ f \in report'.called /\ f \notin report'.failed
                    \/ ~(files[f].id \in Item /\ remote[files[f].id].present)
       /\ PullRan => \A f \in File : files[f].present => files'[f].present
      ]_vars

\* The local file of an item that the remote list no longer holds.
RemoteGone(f) ==
    files[f].present /\ files[f].id \in Item /\ ~remote[files[f].id].present

\* C16: a pull keeps the file of an item missing from the remote list, sets
\* its deleted flag and leaves its body as it was; a file already tombstoned
\* is not rewritten.
C16_PullTombstones ==
    [][(PullRan /\ ~report'.err) =>
          \A f \in File :
              RemoteGone(f) =>
                  /\ files'[f].present /\ files'[f].deleted
                  /\ files'[f].id = files[f].id
                  /\ parseMarkdownString(files'[f]).body
                         = parseMarkdownString(files[f]).body
                  /\ files[f].deleted => files'[f] = files[f]
      ]_vars

\* A pull has just tombstoned the file of a remotely deleted item.
C16_Witness ==
    /\ lastOp = "pull" /\ report.deleted = 1
    /\ \E f \in File : RemoteGone(f) /\ files[f].deleted /\ files[f].inl

\* C17: a push that completes removes every tombstoned file whose item is
\* absent from the remote list, counts it as deleted and issues no remote
\* call for it.
C17_PushRemovesTombstone ==
    [][(PushRan /\ ~report'.err) =>
          /\ \A f \in File :
                (RemoteGone(f) /\ files[f].deleted) =>
                    ~files'[f].present /\ f \notin report'.called
          /\ report'.deleted
                = Cardinality({f \in File : files[f].present /\ files[f].deleted})
      ]_vars

\* The user tombstoned nothing (the budget is unspent), the item was deleted
\* remotely, and a push removed its file with no remote call.
C17_Witness ==
    /\ left.tombs = 1 /\ lastOp = "push"
    /\ report.deleted = 1 /\ report.called = {}
    /\ \A f \in File : ~files[f].present

\* C18: a pull that follows a pull with no local or remote change in between
\* reports zero created and zero updated and leaves every file unchanged.
C18_PullIdempotent ==
    [][(lastOp = "pull" /\ PullRan /\ ~report'.err) =>
          /\ report'.created = 0 /\ report'.updated = 0
          /\ files' = files
      ]_vars

\* C19: a push that follows a push with no local or remote change in between
\* completes, reports zero created, updated and deleted, and makes no remote
\* create, update or delete call.
C19_PushIdempotent ==
    [][(lastOp = "push" /\ PushRan /\ report'.failed = {}) =>
          /\ ~report'.err
          /\ report'.created = 0 /\ report'.updated = 0 /\ report'.deleted = 0
          /\ report'.called = {}
      ]_vars

\* C20: a push whose create call for a file without an id succeeds creates
\* exactly one remote item with the file's title and body, reports created=1,
\* and leaves the file with the new item's id, the project's id and a stored
\* checksum equal to the checksum of its body.
C20_PushCreates ==
    [][PushRan =>
          \A f \in File :
              (/\ files[f].present /\ files[f].id = "" /\ ~files[f].deleted
               /\ f \in report'.called /\ f \notin report'.failed)
              => /\ {i \in Item : remote'[i].present /\ ~remote[i].present}
                        = {NewItemId}
                 /\ remote'[NewItemId].title
                        = (IF files[f].title # "" THEN files[f].title ELSE Stem(f))
                 /\ remote'[NewItemId].body = parseMarkdownString(files[f]).body
                 /\ report'.created = 1
                 /\ files'[f].id = NewItemId /\ files'[f].project = ProjectId
                 /\ storedChecksum(files'[f])
                        = computeChecksum(parseMarkdownString(files'[f]).body)
      ]_vars

\* C21: push never creates a remote item for a file whose id starts with
\* PVTI_ but is missing from the remote list: no remote call is made for the
\* file, the file and the absence of its item are left as they were, and a
\* push that completes counts the file as unchanged.
C21_NoCreateForMissingItem ==
    [][PushRan =>
          \A f \in File :
              (RemoteGone(f) /\ ~files[f].deleted) =>
                  /\ f \notin report'.called
                  /\ files'[f] = files[f]
                  /\ ~remote'[files[f].id].present
                  /\ ~report'.err =>
                        report'.unchanged
                            >= Cardinality({g \in File : RemoteGone(g)
                                                         /\ ~files[g].deleted})
      ]_vars

\* A push has just passed over the file of a remotely deleted item that no
\* pull had tombstoned yet.
C21_Witness ==
    /\ lastOp = "push" /\ report.unchanged = 1 /\ report.called = {}
    /\ \E f \in File : RemoteGone(f) /\ ~files[f].deleted

\* The file f is locally modified (the user gave it a body, free of
\* surrounding whitespace, other than the one its stored checksum is of) and
\* its item is on the remote as a linked issue or pull request.
ModifiedNonDraft(f) ==
    /\ files[f].present /\ ~files[f].deleted /\ files[f].id \in Item
    /\ remote[files[f].id].present
    /\ remote[files[f].id].ctype # "DraftIssue"
    /\ localChanged(files[f])
    /\ Trim(files[f].body) = files[f].body
    /\ files[f].sum # computeChecksum(files[f].body)

\* C22: a push over a locally modified item whose remote counterpart is a
\* linked issue or pull request makes no remote call for it, leaves the remote
\* item and the local file as they were, and its result carries an error.
C22_NonDraftReportsError ==
    [][PushRan =>
          \A f \in File :
              ModifiedNonDraft(f) =>
                  /\ f \notin report'.called
                  /\ remote'[files[f].id] = remote[files[f].id]
                  /\ files'[f] = files[f]
                  /\ report'.err
      ]_vars

\* The place of a file in the order in which push goes through the directory.
Pos(f) == CHOOSE k \in 1..Len(FileOrder) : FileOrder[k] = f

\* C23: when a remote create, update or delete of a push fails, the push's
\* result carries an error and nothing is done for the files that come after
\* the failing one: no remote call, no rewrite, no removal.
C23_FailureAbortsProject ==
    [][PushRan =>
          \A f \in report'.failed :
              /\ report'.err
              /\ \A g \in File :
                    Pos(g) > Pos(f) => g \notin report'.called /\ files'[g] = files[g]
      ]_vars

FailedPushBefore ==
    /\ lastOp \in {"push", "pushfail"} /\ report.kind = "push"
    /\ report.err \/ report.failed # {}

\* C25: a push that follows a push which failed part-way makes no remote call
\* for a file whose create, update or delete succeeded in the failed run.
C25_RerunAfterFailureSafe ==
    [][(FailedPushBefore /\ PushRan) =>
          \A f \in report.called \ report.failed : f \notin report'.called ]_vars

\* The remote items for which a pull of the directory makes a new file.
NewItems == {i \in Item : remote[i].present /\ LocalItemMap(files, i) = "none"}

\* base.md, base-2.md, base-3.md, ...
Candidate(base, k) ==
    IF k = 1 THEN base \o ".md" ELSE base \o "-" \o ToString(k) \o ".md"

\* C26: a pull gives every new remote item a file of its own, named base.md
\* or base-k.md with every earlier name of the row taken, and puts it where no
\* file was: a file that was there keeps its id, and one without an id is left
\* as it was.
C26_NewFilesDistinct ==
    [][(PullRan /\ ~report'.err) =>
          /\ \A i \in NewItems :
                \E f \in File :
                    /\ files'[f].id = i /\ ~files[f].present
                    /\ \A g \in File \ {f} : files'[g].id # i
                    /\ \E k \in 1..3 :
                          /\ f = Candidate(sanitizeForFilesystem(remote[i].title), k)
                          /\ \A j \in 1..(k - 1) :
                                files'[Candidate(sanitizeForFilesystem(remote[i].title), j)].present
          /\ \A f \in File :
                files[f].present =>
                    /\ files'[f].id = files[f].id
                    /\ files[f].id = "" => files'[f] = files[f]
          /\ report'.created = Cardinality(NewItems) ]_vars

\* A pull has made t0-2.md and t0-3.md for two items named alike, next to a
\* file t0.md of the user's that has no id.
C26_Witness ==
    /\ report.kind = "pull" /\ report.created = 2
    /\ files["t0.md"].present /\ files["t0.md"].id = ""
    /\ files["t0-2.md"].id = "PVTI_1" /\ files["t0-3.md"].id = "PVTI_2"

\* C27: a pull never marks deleted a file whose id is absent or does not
\* start with PVTI_.
C27_TombstoneOnlyCanonical ==
    [][PullRan =>
          \A f \in File :
              (files[f].present /\ ~files[f].deleted /\ files[f].id \notin Item)
                  => ~files'[f].deleted ]_vars

\* The file's metadata block is opened and never closed.
Malformed(f) == files[f].present /\ ~files[f].meta /\ files[f].body = OpenBlock

\* C28: a push or a pull in which no remote call fails skips a file whose
\* metadata block is malformed: it makes no remote call for the file and does
\* not rewrite it.
C28_MalformedSkipped ==
    [][((PushRan \/ PullRan) /\ report'.failed = {}) =>
          \A f \in File :
              Malformed(f) => f \notin report'.called /\ files'[f] = files[f] ]_vars

\* C29: the file a pull writes for a new remote item parses back to the
\* item: the parsed id, title, content type and body are the item's.
C29_SerializeRoundTrips ==
    [][(PullRan /\ ~report'.err) =>
          \A i \in NewItems : \A f \in File :
              (files'[f].id = i /\ ~files[f].present) =>
                  /\ files'[f] = serializeItemToMarkdown(i, remote[i])
                  /\ parseMarkdownString(files'[f]).id = i
                  /\ parseMarkdownString(files'[f]).ctype = remote[i].ctype
                  /\ parseMarkdownString(files'[f]).title = remote[i].title
                  /\ parseMarkdownString(files'[f]).body = remote[i].body ]_vars

\* C30: while the daemon runs, a file created in the project directory with
\* a title and no id leads, unless a stop is requested, to a state where the
\* file carries the id of an item that the remote project holds.
C30_DaemonCreatesItem ==
    \A f \in File :
        (files[f].present /\ files[f].id = "" /\ files[f].title # "")
            ~> \/ stopPc # "none"
               \/ files[f].id \in Item /\ remote[files[f].id].present

\* The file holds a synced item that is on the remote, its body has the
\* stored checksum, and its title is not the remote one.
TitleOnly(f) ==
    /\ files[f].present /\ ~files[f].deleted /\ files[f].id \in Item
    /\ remote[files[f].id].present
    /\ LocalItemMap(files, files[f].id) = f
    /\ computeChecksum(parseMarkdownString(files[f]).body) = storedChecksum(files[f])
    /\ parseMarkdownString(files[f]).title # remote[files[f].id].title

\* C31: a synced file whose title alone differs from the remote item is not
\* listed as localModified, a push makes no remote call for it and leaves it
\* as it is, and a pull overwrites it with the remote item.
C31_TitleEditLost ==
    [][\A f \in File :
          TitleOnly(f) =>
              /\ f \notin getProjectStatus(files, remote).localModified
              /\ PushRan => f \notin report'.called /\ files'[f] = files[f]
              /\ (PullRan /\ ~report'.err) =>
                    files'[f] = serializeItemToMarkdown(files[f].id, remote[files[f].id])
      ]_vars

\* The user has given the file of PVTI_1 the title t1 and a push has then
\* counted it unchanged without a remote call.
C31_Witness ==
    /\ lastOp = "push" /\ report.called = {} /\ report.unchanged = 1
    /\ \E f \in File :
          /\ TitleOnly(f) /\ files[f].id = "PVTI_1" /\ files[f].title = "t1"
          /\ files[f].body = remote["PVTI_1"].body

\* The file is marked deleted and its item is not on the remote.
TombstonedGone(f) ==
    /\ files[f].present /\ files[f].deleted /\ files[f].id \in Item
    /\ ~remote[files[f].id].present

\* C32: the daemon's push of a file marked deleted whose item is already
\* absent remotely starts no remote delete call.
C32_DaemonSkipsDeleteCall ==
    [][\A f \in File :
          TombstonedGone(f) =>
              \A a \in Slot :
                  ~(/\ act[a] = Idle
                    /\ act'[a].kind = "push"
                    /\ act'[a].file = f
                    /\ act'[a].pc = "delete") ]_vars

\* C33: once stop() has set running to false, no callback of a debounce timer
\* or of the interval timer starts a push or a pull.
C33_NoActionAfterStop ==
    [][~running => \A a \in Slot : act[a] = Idle => act'[a] = Idle]_vars

\* C34: the stop command removes the lock record only of the process it
\* signalled: when its removePidFile lands after that daemon's own stop
\* handler has run, daemon.pid is absent or names the signalled process, and
\* no active daemon is left without its record.
C34_StopRemovesOwnRecord ==
    [][(/\ stopCmd.pc = "wait" /\ stopCmd'.pc = "done"
        /\ startPc[stopCmd.pid] = "exited") =>
          /\ pidFile \in {0, stopCmd.pid}
          /\ \A p \in active' : Cardinality(active') = 1 => pidFile' = p ]_vars

\* No file-change event, no debounce timer and no push is pending, and the
\* body of every item file has the checksum the file records.
Quiet ==
    /\ events = {} /\ watching = "none"
    /\ \A f \in File : timeouts[f] = <<>> /\ ~pendingChanges[f]
    /\ \A a \in Slot : act[a].kind # "push"
    /\ \A f \in File :
          (files[f].present /\ files[f].meta) =>
              computeChecksum(parseMarkdownString(files[f]).body) = files[f].sum

\* C35: the daemon quiesces: after at most one edit by the user or on the
\* remote it reaches a state from which no file-change event, debounce timer
\* or push is pending any more and every file has the checksum it records.
C35_DaemonQuiesces == <>[]Quiet

\* The categories of the status that list the local file f: the five local
\* ones, remoteModified standing for the file of a listed item.
LocalCategories(f, st) ==
    {c \in {"localNew", "localDeleted", "remoteDeleted", "localModified"} : f \in st[c]}
        \cup (IF files[f].present /\ ~files[f].deleted /\ files[f].id \in st.remoteModified
              THEN {"remoteModified"} ELSE {})

\* The file holds an item that is on the remote with the same title and body,
\* is not marked deleted, and its body has the stored checksum.
Unchanged(f) ==
    /\ files[f].present /\ ~files[f].deleted /\ files[f].id \in Item
    /\ remote[files[f].id].present
    /\ parseMarkdownString(files[f]).title = remote[files[f].id].title
    /\ parseMarkdownString(files[f]).body = remote[files[f].id].body
    /\ computeChecksum(parseMarkdownString(files[f]).body) = storedChecksum(files[f])

UpToDate ==
    LET st == getProjectStatus(files, remote)
    IN /\ st.localNew = {} /\ st.localModified = {} /\ st.localDeleted = {}
       /\ st.remoteNew = {} /\ st.remoteModified = {} /\ st.remoteDeleted = {}

\* C37: when getProjectStatus lists nothing for the project, a push of the
\* same directory and remote items makes no remote call and changes no file.
C37_PushAgreesWithStatus ==
    [][(UpToDate /\ PushRan) =>
          /\ report'.called = {}
          /\ files' = files ]_vars

\* The file is marked deleted, its item is still on the remote, and title
\* and body are texts that parse back to themselves.
PendingDeletion(f) ==
    /\ files[f].present /\ files[f].deleted /\ files[f].id \in Item
    /\ remote[files[f].id].present
    /\ IsText(parseMarkdownString(files[f]).title)
    /\ Trim(files[f].body) = files[f].body

\* C38: a pull never clears a pending local deletion: a file marked deleted
\* whose remote item exists is still marked deleted after the pull.
C38_PullKeepsTombstone ==
    [][PullRan => \A f \in File : PendingDeletion(f) => files'[f].deleted ]_vars

\* The file has no id: an item of the user's that no push has created yet.
IdLess(f) == files[f].present /\ files[f].id = ""

\* A step of the daemon's poll pull.
PollStep == \E a \in Slot : act[a].kind = "pull" /\ act'[a] # act[a]

====
